---- MODULE Spec2Model ----
(***************************************************************************)
(* A model of rusty-bvg: the departure pipeline of src/api.rs              *)
(* (fetch_departures, clean_destination), the Departure type of            *)
(* src/departure.rs, the rotating display of src/display.rs and the        *)
(* scheduler loop of the display-mode main of src/main.rs.                 *)
(*                                                                         *)
(* A Rust String is a sequence of characters; each character is a          *)
(* one-element token ("S", " ", ...).  Lengths the code takes with         *)
(* String::len are byte lengths of the UTF-8 encoding (ByteLen).           *)
(***************************************************************************)
EXTENDS Integers, Sequences, FiniteSets, TLC

VARIABLES
    pc,               \* position of the display-mode main (src/main.rs:109-257)
    departures,       \* main's `departures: Vec<Departure>`
    current_index,    \* BvgDisplay.current_index
    needs_render,     \* main's `needs_render`
    fetch_elapsed,    \* last_fetch.elapsed(), in ms, saturated at the fetch period
    rotate_elapsed,   \* last_display_change.elapsed(), in ms, saturated at the rotate period
    matrix,           \* what the LED matrix shows: <<>> blank, <<d>> the departure d
    draws,            \* calls of render_departures in the current loop iteration
    dest,             \* argument of a direct call of clean_destination
    cleaned,          \* its result
    api_response,     \* what transport and decoder return to a direct call of fetch_departures
    now_utc,          \* Utc::now() of that call, seconds of the day
    fetched,          \* <<r>> once the latest call of fetch_departures ended with r
    format_call,      \* receiver and argument of a direct call of format_truncated
    truncated,        \* <<s>> once that call returned s
    wrap_call,        \* arguments of a direct call of smart_wrap
    wrapped           \* <<lines>> once that call returned lines

vars == <<pc, departures, current_index, needs_render, fetch_elapsed,
          rotate_elapsed, matrix, draws, dest, cleaned, api_response,
          now_utc, fetched, format_call, truncated, wrap_call, wrapped>>

schedVars == <<pc, departures, current_index, needs_render, fetch_elapsed,
               rotate_elapsed, matrix, draws>>
cleanVars == <<dest, cleaned>>
fetchVars == <<api_response, now_utc, fetched>>
formatVars == <<format_call, truncated>>
wrapVars == <<wrap_call, wrapped>>

----------------------------------------------------------------------------
(* Characters and strings *)

\* The two ring-direction glyphs, U+27F2 and U+27F3.
RingCCW == "RING_CCW"
RingCW == "RING_CW"
\* U+00DF, a two-byte character that occurs in street names.
Eszett == "ESZETT"

\* Bytes of the UTF-8 encoding of one character.
Utf8Len(c) ==
    IF c \in {RingCCW, RingCW} THEN 3
    ELSE IF c = Eszett THEN 2
    ELSE 1

RECURSIVE ByteLen(_)
\* String::len: the length in bytes.
ByteLen(s) == IF s = <<>> THEN 0 ELSE Utf8Len(Head(s)) + ByteLen(Tail(s))

\* str::ends_with
ends_with(s, pat) ==
    /\ Len(s) >= Len(pat)
    /\ SubSeq(s, Len(s) - Len(pat) + 1, Len(s)) = pat

\* str::starts_with
starts_with(s, pat) ==
    /\ Len(s) >= Len(pat)
    /\ SubSeq(s, 1, Len(pat)) = pat

\* str::contains
contains(s, pat) ==
    \E i \in 1..(Len(s) - Len(pat) + 1) : SubSeq(s, i, i + Len(pat) - 1) = pat

\* str::is_char_boundary: byte index n starts a character or is the end.
is_char_boundary(s, n) ==
    \E k \in 0..Len(s) : ByteLen(SubSeq(s, 1, k)) = n

Returned(s) == [panicked |-> FALSE, value |-> s]
Panicked == [panicked |-> TRUE, value |-> <<>>]

\* String::truncate(new_len): a no-op beyond the end, a panic inside a
\* character, otherwise the prefix of new_len bytes.
truncate(s, new_len) ==
    IF new_len > ByteLen(s) THEN Returned(s)
    ELSE IF ~is_char_boundary(s, new_len) THEN Panicked
    ELSE Returned(SubSeq(s, 1,
            CHOOSE k \in 0..Len(s) : ByteLen(SubSeq(s, 1, k)) = new_len))

BerlinSuffix == <<" ", "(", "B", "e", "r", "l", "i", "n", ")">>
BhfSuffix == <<" ", "B", "h", "f">>
RingCCWSuffix == <<" ", RingCCW>>
RingCWSuffix == <<" ", RingCW>>
\* Line 90: the home-station substring.
Warschauer == <<"W", "a", "r", "s", "c", "h", "a", "u", "e", "r">>

----------------------------------------------------------------------------
(* clean_destination, src/api.rs:171-216 *)

\* The loop without its " Bhf" test.
RECURSIVE scan_suffixes_without_bhf(_, _)
scan_suffixes_without_bhf(chars, buffer) ==
    IF chars = <<>> THEN Returned(buffer)
    ELSE LET b == Append(buffer, Head(chars)) IN
         IF ends_with(b, BerlinSuffix) THEN truncate(b, ByteLen(b) - 9)
         ELSE IF ends_with(b, RingCCWSuffix) \/ ends_with(b, RingCWSuffix)
              THEN truncate(b, ByteLen(b) - 2)
         ELSE scan_suffixes_without_bhf(Tail(chars), b)

\* The while loop of lines 191-211: push one character, test the three
\* suffixes in order, truncate by the suffix's length and break.
RECURSIVE scan_suffixes(_, _)
scan_suffixes(chars, buffer) ==
    IF chars = <<>> THEN Returned(buffer)
    ELSE LET b == Append(buffer, Head(chars)) IN
         IF ends_with(b, BerlinSuffix) THEN truncate(b, ByteLen(b) - 9)
         ELSE IF ends_with(b, BhfSuffix) THEN truncate(b, ByteLen(b) - 4)
         ELSE IF ends_with(b, RingCCWSuffix) \/ ends_with(b, RingCWSuffix)
              THEN truncate(b, ByteLen(b) - 2)
         ELSE scan_suffixes(Tail(chars), b)

\* Lines 175-187: what is pushed to `result` before the scan.
prefix_result(d) ==
    IF d # <<>> /\ Head(d) \in {"S", "U"} /\ ~(Len(d) >= 2 /\ d[2] = " ")
    THEN <<Head(d)>>
    ELSE <<>>

\* Lines 175-187: what is left in `chars` for the scan.
prefix_rest(d) ==
    IF d # <<>> /\ Head(d) \in {"S", "U"}
    THEN IF Len(d) >= 2 /\ d[2] = " " THEN SubSeq(d, 3, Len(d)) ELSE Tail(d)
    ELSE d

clean_destination(d) ==
    LET scanned == scan_suffixes(prefix_rest(d), <<>>) IN
    IF scanned.panicked THEN Panicked
    ELSE Returned(prefix_result(d) \o scanned.value)

----------------------------------------------------------------------------
(* Departure, src/departure.rs *)

Departure_new(line, destination, minutes) ==
    [line |-> line, destination |-> destination, minutes |-> minutes]

\* Display of one decimal digit.
digit_char(d) == <<"0", "1", "2", "3", "4", "5", "6", "7", "8", "9">>[d + 1]

RECURSIVE to_string(_)
\* Display of a u32, as format! writes `minutes`: decimal, no padding.
to_string(n) ==
    IF n < 10 THEN <<digit_char(n)>>
    ELSE to_string(n \div 10) \o <<digit_char(n % 10)>>

\* chars().take(n).collect(): the first n characters, all if there are fewer.
chars_take(s, n) == SubSeq(s, 1, IF Len(s) < n THEN Len(s) ELSE n)

\* format, lines 19-21.
format(self) ==
    self.line \o <<" ">> \o self.destination \o <<" ">>
        \o to_string(self.minutes) \o <<" ", "m", "i", "n">>

\* min_text of line 32 and line_text of line 33.
min_text(self) == <<" ">> \o to_string(self.minutes) \o <<" ", "m", "i", "n">>
line_text(self) == self.line \o <<" ">>

\* Lines 41-44 of format_truncated: the overhead is below max_chars.
truncate_destination(self, max_chars) ==
    LET overhead == ByteLen(line_text(self)) + ByteLen(min_text(self))
        dest_max_len == max_chars - overhead
        truncated_dest == chars_take(self.destination, dest_max_len)
    IN  line_text(self) \o truncated_dest \o min_text(self)

\* format_truncated, lines 24-45.  The lengths compared with max_chars are
\* String::len, byte lengths; the cuts count characters.
format_truncated(self, max_chars) ==
    LET formatted == format(self)
        overhead == ByteLen(line_text(self)) + ByteLen(min_text(self))
    IN  IF ByteLen(formatted) <= max_chars THEN formatted
        ELSE IF overhead >= max_chars THEN chars_take(formatted, max_chars)
        ELSE truncate_destination(self, max_chars)

----------------------------------------------------------------------------
(* fetch_departures, src/api.rs:33-168 *)

\* Option<T>
None == [some |-> FALSE]
Some(v) == [some |-> TRUE, v |-> v]

WARSCHAUER_STOP_ID == "900120003"

\* char::is_numeric on the characters the model uses.
is_numeric(c) == c \in {"0", "1", "2", "3", "4", "5", "6", "7", "8", "9"}

\* The filter with its S41 test widened to every line that starts so.
is_filtered_line_by_ring_prefix(line_name) ==
    \/ starts_with(line_name, <<"R", "E">>)
    \/ starts_with(line_name, <<"R", "B">>)
    \/ starts_with(line_name, <<"I", "C">>)
    \/ starts_with(line_name, <<"E", "C">>)
    \/ starts_with(line_name, <<"E", "N">>)
    \/ starts_with(line_name, <<"F", "E", "X">>)
    \/ starts_with(line_name, <<"I", "C", "E">>)
    \/ starts_with(line_name, <<"S", "4", "1">>)
    \/ line_name = <<"S", "4", "2">>
    \/ \A i \in 1..Len(line_name) : is_numeric(line_name[i])

\* Lines 107-116: the line names that are skipped.
is_filtered_line(line_name) ==
    \/ starts_with(line_name, <<"R", "E">>)
    \/ starts_with(line_name, <<"R", "B">>)
    \/ starts_with(line_name, <<"I", "C">>)
    \/ starts_with(line_name, <<"E", "C">>)
    \/ starts_with(line_name, <<"E", "N">>)
    \/ starts_with(line_name, <<"F", "E", "X">>)
    \/ starts_with(line_name, <<"I", "C", "E">>)
    \/ line_name = <<"S", "4", "1">>
    \/ line_name = <<"S", "4", "2">>
    \/ \A i \in 1..Len(line_name) : is_numeric(line_name[i])

\* A `when` text is "<date>T<hour>:<minute>:<second><offset>:00" of the
\* day the call is made on, or text of no such shape (syntax = FALSE).
\* DateTime::parse_from_rfc3339: None for a text that is no timestamp,
\* otherwise the local second of the day and the offset in seconds.
parse_from_rfc3339(w) ==
    IF ~w.syntax \/ w.hour > 23 \/ w.minute > 59 \/ w.second > 60
       \/ w.offset > 23 \/ w.offset < -23
    THEN None
    ELSE Some([local |-> w.hour * 3600 + w.minute * 60 + w.second,
               offset |-> w.offset * 3600])

\* DateTime::with_timezone(&Utc): the instant, as a UTC second of the day.
with_timezone_utc(t) == t.local - t.offset

\* Duration::num_minutes: whole minutes, truncated toward zero.
num_minutes(seconds) ==
    IF seconds >= 0 THEN seconds \div 60 ELSE -((-seconds) \div 60)

MIN_MINUTES == 1
MAX_MINUTES == 15

\* The window with the sixty-minute horizon of the tests.
in_window_of_an_hour(minutes) == minutes >= MIN_MINUTES /\ minutes <= 60

\* Line 129.
in_window(minutes) == minutes >= MIN_MINUTES /\ minutes <= MAX_MINUTES

\* One iteration of the for loop of lines 81-151 on the vector collected so
\* far: the vector after it, or a panic.
process_entry(api_dep, now, collected) ==
    IF ~api_dep.direction.some THEN Returned(collected)
    ELSE IF contains(api_dep.direction.v, Warschauer) THEN Returned(collected)
    ELSE IF ~api_dep.when.some THEN Returned(collected)
    ELSE IF is_filtered_line(api_dep.line.name) THEN Returned(collected)
    ELSE LET parsed == parse_from_rfc3339(api_dep.when.v) IN
         IF ~parsed.some THEN Returned(collected)
         ELSE LET minutes == num_minutes(with_timezone_utc(parsed.v) - now) IN
              IF ~in_window(minutes) THEN Returned(collected)
              ELSE LET destination == clean_destination(api_dep.direction.v) IN
                   IF destination.panicked THEN Panicked
                   ELSE Returned(Append(collected,
                            Departure_new(api_dep.line.name, destination.value,
                                          minutes)))

RECURSIVE collect(_, _, _)
\* The for loop of lines 81-151.
collect(entries, now, collected) ==
    IF entries = <<>> THEN Returned(collected)
    ELSE LET step == process_entry(Head(entries), now, collected) IN
         IF step.panicked THEN Panicked
         ELSE collect(Tail(entries), now, step.value)

\* Insertion of d before the elements of equal key: an unstable sort.
insert_before_equal_minutes(sorted, d) ==
    LET n == Cardinality({i \in 1..Len(sorted) : sorted[i].minutes < d.minutes})
    IN SubSeq(sorted, 1, n) \o <<d>> \o SubSeq(sorted, n + 1, Len(sorted))

\* Insertion of d behind every element whose key is not greater.
insert_by_minutes(sorted, d) ==
    LET n == Cardinality({i \in 1..Len(sorted) : sorted[i].minutes <= d.minutes})
    IN SubSeq(sorted, 1, n) \o <<d>> \o SubSeq(sorted, n + 1, Len(sorted))

RECURSIVE sort_onto(_, _)
sort_onto(sorted, rest) ==
    IF rest = <<>> THEN sorted
    ELSE sort_onto(insert_by_minutes(sorted, Head(rest)), Tail(rest))

\* Line 154: departures.sort_by_key(|d| d.minutes), a stable sort.
sort_by_minutes(v) == sort_onto(<<>>, v)

\* What the transport and the JSON decoder hand to the function.
HttpError == [kind |-> "http_error", departures |-> <<>>]
JsonError == [kind |-> "json_error", departures |-> <<>>]
Decoded(entries) == [kind |-> "ok", departures |-> entries]

\* Result<Vec<Departure>, _> of fetch_departures, or its panic; `collected`
\* is the vector as it was before the sort of line 154.
FetchOk(sorted, collected) ==
    [tag |-> "Ok", departures |-> sorted, collected |-> collected]
FetchErr == [tag |-> "Err", departures |-> <<>>, collected |-> <<>>]
FetchPanic == [tag |-> "Panic", departures |-> <<>>, collected |-> <<>>]

fetch_departures(stop_id, response, now) ==
    IF stop_id # WARSCHAUER_STOP_ID THEN FetchErr
    ELSE IF response.kind # "ok" THEN FetchErr
    ELSE LET looped == collect(response.departures, now, <<>>) IN
         IF looped.panicked THEN FetchPanic
         ELSE FetchOk(sort_by_minutes(looped.value), looped.value)

\* src/api.rs:220-222
fetch_warschauer_str(response, now) ==
    fetch_departures("900120003", response, now)

----------------------------------------------------------------------------
(* Direction texts the specifications draw from *)

MaxPieces == 4

Pieces ==
    { <<"S">>, <<"U">>, <<" ">>, <<"a">>, BhfSuffix, BerlinSuffix,
      <<RingCCW>>, <<RingCW>> }

RECURSIVE Flatten(_)
Flatten(ps) == IF ps = <<>> THEN <<>> ELSE Head(ps) \o Flatten(Tail(ps))

PieceTexts ==
    { Flatten(ps) : ps \in UNION { [1..n -> Pieces] : n \in 0..MaxPieces } }

SpandauBhfBerlin ==
    <<"S", " ", "S", "p", "a", "n", "d", "a", "u">> \o BhfSuffix \o BerlinSuffix
Spandau == <<"S", "p", "a", "n", "d", "a", "u">>
Springpfuhl == <<"S", "p", "r", "i", "n", "g", "p", "f", "u", "h", "l">>
SpringpfuhlBerlin == Springpfuhl \o BerlinSuffix
BerlinerStr == <<"B", "e", "r", "l", "i", "n", "e", "r", " ", "S", "t", "r", ".">>
UBerlinerStr == <<"U", " ">> \o BerlinerStr
Uhlandstr == <<"U", "h", "l", "a", "n", "d", "s", "t", "r", ".">>
RingbahnS42 == <<"R", "i", "n", "g", "b", "a", "h", "n", " ", "S", "4", "2">>
RingbahnS41 == <<"R", "i", "n", "g", "b", "a", "h", "n", " ", "S", "4", "1">>
RingbahnS42CCW == RingbahnS42 \o RingCCWSuffix
RingbahnS41CW == RingbahnS41 \o RingCWSuffix
WarschauerStr == <<"S", "+", "U", " ">> \o Warschauer \o <<" ", "S", "t", "r", ".">>
GrosseStrBerlin == <<"G", "r", "o", Eszett, "e">> \o BerlinSuffix

NamedTexts ==
    { SpandauBhfBerlin, Spandau, SpringpfuhlBerlin, UBerlinerStr, Uhlandstr,
      RingbahnS42CCW, RingbahnS41CW, WarschauerStr, GrosseStrBerlin }

DirectionTexts == PieceTexts \cup NamedTexts

----------------------------------------------------------------------------
(* Responses the specifications draw from *)

Name(chars) == [name |-> chars]
ApiDeparture(line_name, direction, when) ==
    [line |-> Name(line_name), direction |-> direction, when |-> when]

When(hour, minute, second, offset) ==
    [syntax |-> TRUE, hour |-> hour, minute |-> minute, second |-> second,
     offset |-> offset]
NotATimestamp ==
    [syntax |-> FALSE, hour |-> 0, minute |-> 0, second |-> 0, offset |-> 0]

\* 12:00:00 UTC and half a minute later.
Noon == 12 * 3600
NowChoices == {Noon, Noon + 30}

Whens ==
    { When(11, 58, 0, 0), When(11, 59, 30, 0), When(12, 0, 0, 0),
      When(12, 0, 59, 0), When(12, 1, 0, 0), When(13, 1, 0, 1),
      When(12, 1, 29, 0), When(12, 1, 30, 0), When(12, 5, 0, 0),
      When(14, 5, 10, 2), When(12, 5, 0, 2), When(12, 15, 0, 0),
      When(12, 15, 59, 0), When(12, 16, 0, 0), When(12, 16, 29, 0),
      When(12, 16, 30, 0), When(12, 40, 0, 0), When(12, 61, 0, 0),
      When(25, 0, 0, 0), NotATimestamp }

LineNames ==
    { <<"R", "E", "2">>, <<"R", "B", "2", "4">>, <<"I", "C">>,
      <<"I", "C", "E">>, <<"E", "C">>, <<"E", "N">>, <<"F", "E", "X">>,
      <<"S", "4", "1">>, <<"S", "4", "2">>, <<"1", "0", "0">>, <<"4", "2">>,
      <<>>, <<"S", "3">>, <<"S", "7">>, <<"S", "5">>, <<"U", "1">>,
      <<"U", "3">>, <<"M", "1", "0">>, <<"M", "4", "3">>, <<"S", "4">>,
      <<"S", "4", "1", "1">>, <<"R">>, <<"E", "R">>, <<"F", "E">>,
      <<"N", "1">>, <<"1", "A">>, <<"X", "R", "E">> }

Erkner == <<"E", "r", "k", "n", "e", "r">>

\* One entry, every line name against every timestamp.
LineWhenResponses ==
    { Decoded(<<ApiDeparture(l, Some(Erkner), w)>>) :
        l \in LineNames, w \in {Some(t) : t \in Whens} \cup {None} }

\* One entry in the window, every direction text.
DirectionResponses ==
    { Decoded(<<ApiDeparture(<<"S", "3">>, d, Some(When(12, 5, 0, 0)))>>) :
        d \in {Some(t) : t \in DirectionTexts} \cup {None} }

MaxBatch == 4

BatchEntries ==
    { ApiDeparture(<<"S", "3">>, Some(Erkner), Some(When(12, 5, 0, 0))),
      ApiDeparture(<<"U", "1">>, Some(UBerlinerStr), Some(When(12, 5, 40, 0))),
      ApiDeparture(<<"S", "7">>, Some(SpandauBhfBerlin), Some(When(12, 2, 0, 0))),
      ApiDeparture(<<"M", "1", "0">>, Some(Uhlandstr), Some(When(12, 10, 0, 0))),
      ApiDeparture(<<"R", "E", "2">>, Some(Erkner), Some(When(12, 3, 0, 0))),
      ApiDeparture(<<"S", "5">>, Some(Erkner), Some(NotATimestamp)),
      ApiDeparture(<<"S", "5">>, None, Some(When(12, 4, 0, 0))),
      ApiDeparture(<<"S", "8">>, Some(RingbahnS42CCW), Some(When(12, 7, 0, 0))) }

BatchResponses ==
    { Decoded(es) : es \in UNION { [1..n -> BatchEntries] : n \in 0..MaxBatch } }

\* A direct call of fetch_departures: `fetched` is <<>> before the call and
\* <<r>> once it ended with r.
CallFetch ==
    /\ fetched = <<>>
    /\ fetched' = <<fetch_departures(WARSCHAUER_STOP_ID, api_response, now_utc)>>
    /\ UNCHANGED <<api_response, now_utc>>

\* A direct call of clean_destination: `cleaned` is <<>> before the call
\* and <<r>> once it returned (or panicked with) r.
CallClean ==
    /\ cleaned = <<>>
    /\ cleaned' = <<clean_destination(dest)>>
    /\ UNCHANGED dest

\* Departures and widths for direct calls of format_truncated: line names
\* and destinations with and without a two-byte character, minutes of one
\* and two digits, every max_chars up to MaxChars.
MaxChars == 26

StrausbergNord ==
    <<"S", "t", "r", "a", "u", "s", "b", "e", "r", "g", " ", "N", "o", "r", "d">>
Strasse == <<"S", "t", "r", "a", Eszett, "e">>

FormatLines == { <<"S", "5">>, <<"M", "1", "0">>, <<Eszett, "1">>, <<>> }
FormatDestinations == { <<>>, Erkner, Strasse, StrausbergNord }
FormatMinutes == { 0, 8, 12 }

FormatCalls ==
    { [self |-> Departure_new(l, d, m), max_chars |-> n] :
        l \in FormatLines, d \in FormatDestinations,
        m \in FormatMinutes, n \in 0..MaxChars }

\* A direct call of format_truncated.
CallFormat ==
    /\ truncated = <<>>
    /\ truncated' = <<format_truncated(format_call.self, format_call.max_chars)>>
    /\ UNCHANGED format_call

----------------------------------------------------------------------------
(* BvgDisplay, src/display.rs *)

\* render_departures, lines 65-115: the canvas is cleared, the departure at
\* current_index (if the slice has one) is drawn, and the canvas is swapped
\* in.  The matrix then shows that departure, or nothing.
render_departures(index, deps) ==
    IF index < Len(deps) THEN <<deps[index + 1]>> ELSE <<>>

\* The step without its modulo.
next_departure_unwrapped(index, total) == index + 1

\* next_departure, lines 118-120.
next_departure(index, total) == (index + 1) % total

\* char::is_whitespace on the characters the model uses.
is_whitespace(c) == c = " "

RECURSIVE split_words(_, _, _)
\* str::split_whitespace: the maximal runs of non-whitespace characters,
\* in order.  `word` is the run being read, `words` those already ended.
split_words(rest, word, words) ==
    IF rest = <<>>
    THEN IF word = <<>> THEN words ELSE Append(words, word)
    ELSE IF is_whitespace(Head(rest))
    THEN split_words(Tail(rest), <<>>,
                     IF word = <<>> THEN words ELSE Append(words, word))
    ELSE split_words(Tail(rest), Append(word, Head(rest)), words)

split_whitespace(text) == split_words(text, <<>>, <<>>)

\* One pass of the loop of lines 132-159 over `word`; `broke` once the
\* break of line 151 was taken.
wrap_word(st, word, max_width, max_lines) ==
    LET test_len == IF st.current_line = <<>> THEN ByteLen(word)
                    ELSE ByteLen(st.current_line) + 1 + ByteLen(word)
        pushed == IF st.current_line # <<>>
                  THEN Append(st.lines, st.current_line) ELSE st.lines
    IN  IF st.broke THEN st
        ELSE IF test_len <= max_width
        THEN [st EXCEPT !.current_line =
                 IF st.current_line = <<>> THEN word
                 ELSE st.current_line \o <<" ">> \o word]
        ELSE IF Len(pushed) >= max_lines
        THEN [lines |-> pushed, current_line |-> <<>>, broke |-> TRUE]
        ELSE [lines |-> pushed,
              current_line |-> IF ByteLen(word) > max_width
                               THEN chars_take(word, max_width) ELSE word,
              broke |-> FALSE]

RECURSIVE wrap_words(_, _, _, _)
wrap_words(st, words, max_width, max_lines) ==
    IF words = <<>> THEN st
    ELSE wrap_words(wrap_word(st, Head(words), max_width, max_lines),
                    Tail(words), max_width, max_lines)

\* Lines 170-172: empty strings pushed while lines.len() < max_lines.
pad_lines(lines, max_lines) ==
    lines \o [i \in 1..(max_lines - Len(lines)) |-> <<>>]

\* smart_wrap, lines 127-175.
smart_wrap(text, max_width, max_lines) ==
    LET st == wrap_words([lines |-> <<>>, current_line |-> <<>>, broke |-> FALSE],
                         split_whitespace(text), max_width, max_lines)
        lines == IF st.current_line # <<>> /\ Len(st.lines) < max_lines
                 THEN Append(st.lines, st.current_line) ELSE st.lines
    IN  pad_lines(lines, max_lines)

\* Texts and sizes for direct calls of smart_wrap: every text of up to
\* MaxText characters over a letter, a two-byte letter and the space, with
\* every width up to MaxWidth and every line count up to MaxLines; and the
\* display's own call shape, 16 columns and 2 lines.
MaxText == 5
MaxWidth == 3
MaxLines == 3

WrapChars == { "a", Eszett, " " }
WrapTexts == UNION { [1..n -> WrapChars] : n \in 0..MaxText }

U3KrummeLanke ==
    <<"U", "3", " ", "K", "r", "u", "m", "m", "e", " ", "L", "a", "n", "k", "e">>
S75WarschauerStrasse ==
    <<"S", "7", "5", " ", "W", "a", "r", "s", "c", "h", "a", "u", "e", "r", " ">>
        \o Strasse
DisplayTexts == { U3KrummeLanke, S75WarschauerStrasse, <<"S", "5", " ">> \o StrausbergNord }

DISPLAY_MAX_WIDTH == 16
DISPLAY_MAX_LINES == 2

WrapCalls ==
    { [text |-> t, max_width |-> w, max_lines |-> n] :
        t \in WrapTexts, w \in 0..MaxWidth, n \in 0..MaxLines }
    \cup { [text |-> t, max_width |-> w, max_lines |-> n] :
             t \in DisplayTexts, w \in {4, DISPLAY_MAX_WIDTH},
             n \in {0, DISPLAY_MAX_LINES} }

\* A direct call of smart_wrap.
CallWrap ==
    /\ wrapped = <<>>
    /\ wrapped' = <<smart_wrap(wrap_call.text, wrap_call.max_width, wrap_call.max_lines)>>
    /\ UNCHANGED wrap_call

----------------------------------------------------------------------------
(* The display-mode main, src/main.rs:109-257 *)

FETCH_PERIOD_SECS == 20
ROTATE_PERIOD_SECS == 10
SLEEP_MILLIS == 500
HTTP_TIMEOUT_SECS == 10
TOP_K == 3

FetchPeriod == FETCH_PERIOD_SECS * 1000
RotatePeriod == ROTATE_PERIOD_SECS * 1000

\* Time a blocking call of fetch_warschauer_str may take, in ms: none to
\* speak of, one sleep's worth, or the agent's whole timeout.
FetchDurations == {0, SLEEP_MILLIS, HTTP_TIMEOUT_SECS * 1000}

\* Instant::elapsed after d more ms; beyond the period every value
\* compares alike, so the model stops counting there.
later(elapsed, d, period) ==
    IF elapsed + d >= period THEN period ELSE elapsed + d

\* into_iter().take(3) of line 152, truncate(3) of lines 198-201.
take(v, n) == IF Len(v) > n THEN SubSeq(v, 1, n) ELSE v

MaxResponse == 4

SchedEntries ==
    { ApiDeparture(<<"S", "3">>, Some(Erkner), Some(When(12, 5, 0, 0))),
      ApiDeparture(<<"S", "7">>, Some(SpandauBhfBerlin), Some(When(12, 2, 0, 0))),
      ApiDeparture(<<"M", "1", "0">>, Some(Uhlandstr), Some(When(12, 10, 0, 0))),
      ApiDeparture(<<"R", "E", "2">>, Some(Erkner), Some(When(12, 3, 0, 0))),
      ApiDeparture(<<"S", "8">>, Some(RingbahnS42CCW), Some(When(12, 7, 0, 0))) }

SchedResponses ==
    {HttpError} \cup
    { Decoded(es) : es \in UNION { [1..n -> SchedEntries] : n \in 0..MaxResponse } }

\* Every way a call of fetch_warschauer_str can end in the scheduler.
FetchOutcomes == { fetch_warschauer_str(r, Noon) : r \in SchedResponses }

Init ==
    /\ pc = "start"
    /\ departures = <<>>
    /\ current_index = 0
    /\ needs_render = FALSE
    /\ fetch_elapsed = 0
    /\ rotate_elapsed = 0
    /\ matrix = <<>> /\ draws = 0
    /\ dest = <<>> /\ cleaned = <<>>
    /\ api_response = HttpError /\ now_utc = Noon /\ fetched = <<>>
    /\ format_call = <<>> /\ truncated = <<>>
    /\ wrap_call = <<>> /\ wrapped = <<>>

\* Lines 120-124: BvgDisplay::new() returned Ok.
DisplayInitialized ==
    /\ UNCHANGED draws
    /\ pc = "start"
    /\ current_index' = 0
    /\ pc' = "initial_fetch"
    /\ UNCHANGED <<departures, needs_render, fetch_elapsed, rotate_elapsed, matrix>>

\* Lines 125-129: BvgDisplay::new() returned Err; exit(1).
DisplayInitFailed ==
    /\ UNCHANGED draws
    /\ pc = "start"
    /\ pc' = "exited"
    /\ UNCHANGED <<departures, current_index, needs_render, fetch_elapsed,
                   rotate_elapsed, matrix>>

\* Lines 149-171: what `departures` is initialised to.
initial_departures(r) ==
    IF r.tag = "Ok" /\ r.departures # <<>> THEN take(r.departures, TOP_K) ELSE <<>>

\* Lines 149-175: the initial fetch and the loop's variables.
InitialFetch ==
    /\ UNCHANGED draws
    /\ pc = "initial_fetch"
    /\ \E r \in FetchOutcomes :
         /\ fetched' = <<r>>
         /\ IF r.tag = "Panic"
            THEN /\ pc' = "panicked"
                 /\ UNCHANGED <<departures, needs_render, fetch_elapsed,
                                rotate_elapsed>>
            ELSE /\ departures' = initial_departures(r)
                 /\ fetch_elapsed' = 0
                 /\ rotate_elapsed' = 0
                 /\ needs_render' = TRUE
                 /\ pc' = "initial_render"
    /\ UNCHANGED <<current_index, matrix>>

\* Lines 177-179.
InitialRender ==
    /\ UNCHANGED draws
    /\ pc = "initial_render"
    /\ matrix' = IF departures # <<>>
                 THEN render_departures(current_index, departures)
                 ELSE matrix
    /\ pc' = "refresh"
    /\ UNCHANGED <<departures, current_index, needs_render, fetch_elapsed,
                   rotate_elapsed>>

\* Line 183, the period has not elapsed.
RefreshNotDue ==
    /\ UNCHANGED draws
    /\ pc = "refresh"
    /\ fetch_elapsed < FetchPeriod
    /\ pc' = "rotate"
    /\ UNCHANGED <<departures, current_index, needs_render, fetch_elapsed,
                   rotate_elapsed, matrix>>

\* The match without the truncation of lines 198-201.
refreshed_departures_untruncated(r, old) ==
    IF r.tag = "Ok" /\ r.departures # <<>> THEN r.departures ELSE old

\* The match with an Err arm that clears the list.
refreshed_departures_cleared_on_error(r, old) ==
    IF r.tag = "Ok" /\ r.departures # <<>> THEN take(r.departures, TOP_K)
    ELSE IF r.tag = "Err" THEN <<>>
    ELSE old

\* The match without the is_empty test of line 196.
refreshed_departures_replaced_by_empty(r, old) ==
    IF r.tag = "Ok" THEN take(r.departures, TOP_K) ELSE old

\* Lines 194-224: `departures` after the match on the call's result r.
refreshed_departures(r, old) ==
    IF r.tag = "Ok" /\ r.departures # <<>> THEN take(r.departures, TOP_K) ELSE old

\* Lines 194-224: `needs_render` after the match on the call's result r.
refreshed_needs_render(r, old) ==
    IF r.tag = "Ok" /\ r.departures # <<>> THEN TRUE ELSE old

\* Lines 183-226, the period has elapsed: the blocking call, the match on
\* its result and last_fetch = now.
Refresh ==
    /\ UNCHANGED draws
    /\ pc = "refresh"
    /\ fetch_elapsed >= FetchPeriod
    /\ \E r \in FetchOutcomes, d \in FetchDurations :
         /\ fetched' = <<r>>
         /\ IF r.tag = "Panic"
            THEN /\ pc' = "panicked"
                 /\ UNCHANGED <<departures, needs_render, fetch_elapsed,
                                rotate_elapsed>>
            ELSE /\ departures' = refreshed_departures(r, departures)
                 /\ needs_render' = refreshed_needs_render(r, needs_render)
                 /\ fetch_elapsed' = 0
                 /\ rotate_elapsed' = later(rotate_elapsed, d, RotatePeriod)
                 /\ pc' = "rotate"
    /\ UNCHANGED <<current_index, matrix>>

\* Line 229, the period has not elapsed.
RotateNotDue ==
    /\ UNCHANGED draws
    /\ pc = "rotate"
    /\ rotate_elapsed < RotatePeriod
    /\ pc' = "render"
    /\ UNCHANGED <<departures, current_index, needs_render, fetch_elapsed,
                   rotate_elapsed, matrix>>

\* The rotate step with the timer reset moved inside the length test.
Rotate_resetting_only_on_advance ==
    /\ UNCHANGED draws
    /\ pc = "rotate"
    /\ rotate_elapsed >= RotatePeriod
    /\ IF Len(departures) > 1
       THEN /\ current_index' = next_departure(current_index, Len(departures))
            /\ needs_render' = TRUE
            /\ rotate_elapsed' = 0
       ELSE UNCHANGED <<current_index, needs_render, rotate_elapsed>>
    /\ pc' = "render"
    /\ UNCHANGED <<departures, fetch_elapsed, matrix>>

\* Lines 229-246, the period has elapsed.
Rotate ==
    /\ UNCHANGED draws
    /\ pc = "rotate"
    /\ rotate_elapsed >= RotatePeriod
    /\ IF Len(departures) > 1
       THEN /\ current_index' = next_departure(current_index, Len(departures))
            /\ needs_render' = TRUE
       ELSE UNCHANGED <<current_index, needs_render>>
    /\ rotate_elapsed' = 0
    /\ pc' = "render"
    /\ UNCHANGED <<departures, fetch_elapsed, matrix>>

\* The render step without its needs_render test.
Render_every_iteration ==
    /\ pc = "render"
    /\ IF departures # <<>>
       THEN /\ matrix' = render_departures(current_index, departures)
            /\ draws' = draws + 1
            /\ needs_render' = FALSE
       ELSE UNCHANGED <<matrix, draws, needs_render>>
    /\ pc' = "sleep"
    /\ UNCHANGED <<departures, current_index, fetch_elapsed, rotate_elapsed>>

\* Lines 249-252.
Render ==
    /\ pc = "render"
    /\ IF needs_render /\ departures # <<>>
       THEN /\ matrix' = render_departures(current_index, departures)
            /\ draws' = draws + 1
            /\ needs_render' = FALSE
       ELSE UNCHANGED <<matrix, draws, needs_render>>
    /\ pc' = "sleep"
    /\ UNCHANGED <<departures, current_index, fetch_elapsed, rotate_elapsed>>

\* Line 255.
Sleep ==
    /\ pc = "sleep"
    /\ fetch_elapsed' = later(fetch_elapsed, SLEEP_MILLIS, FetchPeriod)
    /\ rotate_elapsed' = later(rotate_elapsed, SLEEP_MILLIS, RotatePeriod)
    /\ draws' = 0
    /\ pc' = "refresh"
    /\ UNCHANGED <<departures, current_index, needs_render, matrix>>

Next ==
    \/ (DisplayInitialized /\ UNCHANGED <<cleanVars, fetchVars, formatVars, wrapVars>>)
    \/ (DisplayInitFailed /\ UNCHANGED <<cleanVars, fetchVars, formatVars, wrapVars>>)
    \/ (InitialFetch /\ UNCHANGED <<cleanVars, api_response, now_utc, formatVars, wrapVars>>)
    \/ (InitialRender /\ UNCHANGED <<cleanVars, fetchVars, formatVars, wrapVars>>)
    \/ (RefreshNotDue /\ UNCHANGED <<cleanVars, fetchVars, formatVars, wrapVars>>)
    \/ (Refresh /\ UNCHANGED <<cleanVars, api_response, now_utc, formatVars, wrapVars>>)
    \/ (RotateNotDue /\ UNCHANGED <<cleanVars, fetchVars, formatVars, wrapVars>>)
    \/ (Rotate /\ UNCHANGED <<cleanVars, fetchVars, formatVars, wrapVars>>)
    \/ (Render /\ UNCHANGED <<cleanVars, fetchVars, formatVars, wrapVars>>)
    \/ (Sleep /\ UNCHANGED <<cleanVars, fetchVars, formatVars, wrapVars>>)

Spec == Init /\ [][Next]_vars

NextClean == CallClean /\ UNCHANGED <<schedVars, fetchVars, formatVars, wrapVars>>

\* clean_destination called on every direction text; the scheduler stands
\* still.
InitClean ==
    /\ dest \in DirectionTexts
    /\ cleaned = <<>>
    /\ api_response = HttpError /\ now_utc = Noon /\ fetched = <<>>
    /\ pc = "idle" /\ departures = <<>> /\ current_index = 0
    /\ needs_render = FALSE /\ fetch_elapsed = 0 /\ rotate_elapsed = 0
    /\ matrix = <<>> /\ draws = 0
    /\ format_call = <<>> /\ truncated = <<>>
    /\ wrap_call = <<>> /\ wrapped = <<>>

SpecClean == InitClean /\ [][NextClean]_vars

NextFetch == CallFetch /\ UNCHANGED <<schedVars, cleanVars, formatVars, wrapVars>>

\* fetch_departures called on every response; the scheduler stands still.
InitFetch ==
    /\ fetched = <<>>
    /\ \/ /\ now_utc \in NowChoices
          /\ api_response \in LineWhenResponses \cup BatchResponses
                                 \cup {HttpError, JsonError}
       \/ /\ now_utc = Noon
          /\ api_response \in DirectionResponses
    /\ dest = <<>> /\ cleaned = <<>>
    /\ pc = "idle" /\ departures = <<>> /\ current_index = 0
    /\ needs_render = FALSE /\ fetch_elapsed = 0 /\ rotate_elapsed = 0
    /\ matrix = <<>> /\ draws = 0
    /\ format_call = <<>> /\ truncated = <<>>
    /\ wrap_call = <<>> /\ wrapped = <<>>

SpecFetch == InitFetch /\ [][NextFetch]_vars

NextFormat == CallFormat /\ UNCHANGED <<schedVars, cleanVars, fetchVars, wrapVars>>

\* format_truncated called on every departure and width; the scheduler
\* stands still.
InitFormat ==
    /\ format_call \in FormatCalls
    /\ truncated = <<>>
    /\ wrap_call = <<>> /\ wrapped = <<>>
    /\ dest = <<>> /\ cleaned = <<>>
    /\ api_response = HttpError /\ now_utc = Noon /\ fetched = <<>>
    /\ pc = "idle" /\ departures = <<>> /\ current_index = 0
    /\ needs_render = FALSE /\ fetch_elapsed = 0 /\ rotate_elapsed = 0
    /\ matrix = <<>> /\ draws = 0

SpecFormat == InitFormat /\ [][NextFormat]_vars

NextWrap == CallWrap /\ UNCHANGED <<schedVars, cleanVars, fetchVars, formatVars>>

\* smart_wrap called on every text and size; the scheduler stands still.
InitWrap ==
    /\ wrap_call \in WrapCalls
    /\ wrapped = <<>>
    /\ format_call = <<>> /\ truncated = <<>>
    /\ dest = <<>> /\ cleaned = <<>>
    /\ api_response = HttpError /\ now_utc = Noon /\ fetched = <<>>
    /\ pc = "idle" /\ departures = <<>> /\ current_index = 0
    /\ needs_render = FALSE /\ fetch_elapsed = 0 /\ rotate_elapsed = 0
    /\ matrix = <<>> /\ draws = 0

SpecWrap == InitWrap /\ [][NextWrap]_vars

----------------------------------------------------------------------------
(* Claims about the scheduler, under Spec *)

\* The step is the loop's render step and it draws (lines 249-252).
RenderFires == pc = "render" /\ needs_render /\ departures # <<>>

\* The step is a refresh whose call ended with r' (lines 183-226).
RefreshCalls == pc = "refresh" /\ fetch_elapsed >= FetchPeriod /\ fetched' # <<>>

\* C1: every render transition (needs_render true, departures non-empty)
\* leaves the matrix showing departures[current_index mod length], also
\* right after a refresh that shrank the list below current_index.
C1_RenderShowsIndexModLength ==
    [][RenderFires =>
        matrix' = <<departures[(current_index % Len(departures)) + 1]>>]_vars

\* C2, as stated: after every refresh whose call returned a list, whatever
\* its length (zero included), departures is the first three entries of that
\* list and needs_render is true.
C2_EveryOkRefreshReplaces ==
    [][(RefreshCalls /\ fetched'[1].tag = "Ok") =>
        /\ departures' = IF Len(fetched'[1].departures) <= 3
                         THEN fetched'[1].departures
                         ELSE SubSeq(fetched'[1].departures, 1, 3)
        /\ needs_render' = TRUE]_vars

\* C2, amended: after a refresh whose call returned a non-empty list,
\* departures is the first three entries of that list (all of it when it
\* has fewer) and needs_render is true; after one whose call returned an
\* empty list, departures and needs_render are what they were.
C2_NonEmptyOkRefreshReplaces ==
    [][(RefreshCalls /\ fetched'[1].tag = "Ok") =>
        IF fetched'[1].departures # <<>>
        THEN /\ departures' = IF Len(fetched'[1].departures) <= 3
                              THEN fetched'[1].departures
                              ELSE SubSeq(fetched'[1].departures, 1, 3)
             /\ needs_render' = TRUE
        ELSE /\ departures' = departures
             /\ needs_render' = needs_render]_vars

\* A refresh has just replaced the list by the first three of a longer
\* result, over an older list that differs.
C2_Witness ==
    /\ pc = "rotate" /\ fetch_elapsed = 0
    /\ fetched # <<>> /\ fetched[1].tag = "Ok"
    /\ Len(fetched[1].departures) > 3
    /\ departures = SubSeq(fetched[1].departures, 1, 3)
    /\ matrix # <<>> /\ matrix[1] # departures[1]
    /\ needs_render

\* C3: a refresh whose call failed leaves departures, current_index and
\* needs_render as they were, and the loop goes on to its rotate step.
C3_FailedRefreshKeepsState ==
    [][(RefreshCalls /\ fetched'[1].tag = "Err") =>
        /\ departures' = departures
        /\ current_index' = current_index
        /\ needs_render' = needs_render
        /\ pc' = "rotate"]_vars

\* A refresh has just failed over a list of three with the index advanced
\* and nothing to render.
C3_Witness ==
    /\ pc = "rotate" /\ fetch_elapsed = 0
    /\ fetched # <<>> /\ fetched[1].tag = "Err"
    /\ Len(departures) = 3 /\ current_index = 2
    /\ ~needs_render

\* C11: in every step that changes current_index the loop is at its rotate
\* step with the rotate period elapsed and more than one departure, the new
\* value is (old + 1) mod length and so below the length, and needs_render
\* is set; no other step, a refresh included, changes it.
C11_IndexChangesOnlyByRotate ==
    [][current_index' # current_index =>
        /\ pc = "rotate" /\ pc' = "render"
        /\ rotate_elapsed >= ROTATE_PERIOD_SECS * 1000
        /\ Len(departures) > 1
        /\ current_index' = (current_index + 1) % Len(departures)
        /\ current_index' \in 0..(Len(departures) - 1)
        /\ needs_render' = TRUE
        /\ departures' = departures]_vars

\* A rotate step has just wrapped the index from 2 to 0 over three
\* departures.
C11_Witness ==
    /\ pc = "render" /\ rotate_elapsed = 0
    /\ current_index = 0 /\ Len(departures) = 3
    /\ matrix = <<departures[3]>>
    /\ needs_render

C15_OnlyDisplayInitFailureEndsProcess ==
    /\ pc = "exited" =>
          /\ fetched = <<>> /\ departures = <<>> /\ matrix = <<>>
          /\ current_index = 0 /\ draws = 0
    /\ pc # "panicked"

\* C16 as stated: with 0 or 1 departures the rotate step leaves
\* current_index, needs_render and the rotate timer alone, and the timer is
\* reset only in a step that advances current_index.
C16_TimerResetOnlyOnAdvance ==
    [][/\ (pc = "rotate" /\ Len(departures) <= 1) =>
              UNCHANGED <<current_index, needs_render, rotate_elapsed>>
       /\ rotate_elapsed' < rotate_elapsed => current_index' # current_index]_vars

\* C16, amended: the rotate step advances current_index and sets
\* needs_render exactly when the period has elapsed and there is more than
\* one departure; with 0 or 1 departures it leaves current_index and
\* needs_render alone; it resets the rotate timer whenever the period has
\* elapsed, whatever the length, and nothing else resets that timer.
C16_TimerResetWheneverDue ==
    [][/\ pc = "rotate" =>
              /\ rotate_elapsed >= ROTATE_PERIOD_SECS * 1000 => rotate_elapsed' = 0
              /\ rotate_elapsed < ROTATE_PERIOD_SECS * 1000 =>
                     UNCHANGED <<current_index, needs_render, rotate_elapsed>>
              /\ Len(departures) <= 1 => UNCHANGED <<current_index, needs_render>>
              /\ (rotate_elapsed >= ROTATE_PERIOD_SECS * 1000 /\ Len(departures) > 1) =>
                     (current_index' # current_index /\ needs_render' = TRUE)
       /\ rotate_elapsed' < rotate_elapsed =>
              (pc = "rotate" /\ rotate_elapsed >= ROTATE_PERIOD_SECS * 1000)]_vars

\* Time has passed since the last fetch and the rotate timer has just been
\* reset over a single departure, which was drawn before and is not redrawn.
C16_Witness ==
    /\ pc = "render" /\ rotate_elapsed = 0 /\ fetch_elapsed > 0
    /\ Len(departures) = 1
    /\ current_index = 0
    /\ ~needs_render

\* C17: departures never holds more than 3 items; once non-empty it stays
\* non-empty; a refresh whose call failed or returned no entry leaves
\* departures, current_index and what the matrix shows as they were.
C17_AtMostThreeNeverEmptiedAgain ==
    /\ [](Len(departures) <= 3)
    /\ [][/\ departures # <<>> => departures' # <<>>
          /\ (RefreshCalls /\ (fetched'[1].tag = "Err" \/ fetched'[1].departures = <<>>)) =>
                 UNCHANGED <<departures, current_index, matrix>>]_vars

\* A refresh has just returned no entry and the three departures held
\* before are still there.
C17_Witness ==
    /\ pc = "rotate" /\ fetch_elapsed = 0
    /\ fetched # <<>> /\ fetched[1].tag = "Ok" /\ fetched[1].departures = <<>>
    /\ Len(departures) = 3

----------------------------------------------------------------------------
(* Claims about the pipeline, under SpecFetch, and about destination       *)
(* cleanup, under SpecClean.  What a claim expects is written out here     *)
(* from the claim, not taken from the definitions above.                   *)

\* The call has ended.
FetchEnded == fetched # <<>>

\* The entries of the decoded response and the list the call returned.
Entries == api_response.departures
Output == fetched[1].departures

LongDistancePrefixes ==
    { <<"R", "E">>, <<"R", "B">>, <<"I", "C">>, <<"E", "C">>, <<"E", "N">>,
      <<"F", "E", "X">>, <<"I", "C", "E">> }
RingLines == { <<"S", "4", "1">>, <<"S", "4", "2">> }
Digits == {"0", "1", "2", "3", "4", "5", "6", "7", "8", "9"}

\* The line codes the mode filter is to drop.
DroppedLine(l) ==
    \/ \E p \in LongDistancePrefixes :
         Len(l) >= Len(p) /\ \A i \in 1..Len(p) : l[i] = p[i]
    \/ l \in RingLines
    \/ \A i \in 1..Len(l) : l[i] \in Digits

\* The text is a timestamp.
IsTimestamp(w) ==
    w.syntax /\ w.hour \in 0..23 /\ w.minute \in 0..59 /\ w.second \in 0..60
    /\ w.offset \in -23..23

\* Seconds from `now` until the instant the timestamp names.
SecondsAhead(w, now) ==
    (w.hour - w.offset) * 3600 + w.minute * 60 + w.second - now

\* At least one full minute and less than sixteen minutes ahead.
InHorizon(w, now) ==
    IsTimestamp(w) /\ SecondsAhead(w, now) >= 60 /\ SecondsAhead(w, now) < 16 * 60

\* The entry has both fields and does not head for the home station.
Complete(e) ==
    e.direction.some /\ e.when.some /\ ~contains(e.direction.v, Warschauer)

\* The entry is one the pipeline is to return.
Usable(e, now) ==
    Complete(e) /\ ~DroppedLine(e.line.name) /\ InHorizon(e.when.v, now)

\* The output holds a departure of this line at this many minutes.
Returns(line_name, minutes) ==
    \E i \in 1..Len(Output) :
        Output[i].line = line_name /\ Output[i].minutes = minutes

\* C4: for every decoded response the call returns a list, and that list
\* has one departure for every usable entry of the batch.
C4_PipelineNeverAborts ==
    (FetchEnded /\ api_response.kind = "ok") =>
        /\ fetched[1].tag = "Ok"
        /\ Len(Output) = Cardinality({j \in 1..Len(Entries) : Usable(Entries[j], now_utc)})

\* C5: cleanup of a text that ends in a space and a ring glyph returns the
\* text before the space.
C5_RingGlyphCut ==
    cleaned # <<>> =>
        /\ dest = RingbahnS42CCW => cleaned[1] = Returned(RingbahnS42)
        /\ dest = RingbahnS41CW => cleaned[1] = Returned(RingbahnS41)
        /\ (ends_with(dest, RingCCWSuffix) \/ ends_with(dest, RingCWSuffix))
              => ~cleaned[1].panicked

\* The response's only entry carries direction text t and the call
\* returned its departure.
SingleDeparture ==
    /\ FetchEnded /\ fetched[1].tag = "Ok"
    /\ Len(Entries) = 1 /\ Len(Output) = 1

StartsWithMarker(t, letter) == Len(t) >= 2 /\ t[1] = letter /\ t[2] = " "

\* C6, as stated: no destination in the output ends with " (Berlin)",
\* " Bhf" or a ring glyph, and none starts with "S " ("U ") when the
\* direction text started with "S " ("U ").
C6_NoNoiseLeft ==
    (FetchEnded /\ fetched[1].tag = "Ok") =>
        /\ \A i \in 1..Len(Output) :
             /\ ~ends_with(Output[i].destination, BerlinSuffix)
             /\ ~ends_with(Output[i].destination, BhfSuffix)
             /\ ~ends_with(Output[i].destination, <<RingCCW>>)
             /\ ~ends_with(Output[i].destination, <<RingCW>>)
        /\ SingleDeparture =>
             \A letter \in {"S", "U"} :
                StartsWithMarker(Entries[1].direction.v, letter)
                    => ~StartsWithMarker(Output[1].destination, letter)

\* C6, amended: no destination in the output ends with " (Berlin)", " Bhf"
\* or a space and a ring glyph (a glyph no space precedes is kept); when
\* the direction text started with "S " or "U ", the destination is an
\* initial part of the text after that one marker, so it starts with such a
\* marker only when the text after the first marker does.
C6_NoSuffixOneMarkerRemoved ==
    (FetchEnded /\ fetched[1].tag = "Ok") =>
        /\ \A i \in 1..Len(Output) :
             /\ ~ends_with(Output[i].destination, BerlinSuffix)
             /\ ~ends_with(Output[i].destination, BhfSuffix)
             /\ ~ends_with(Output[i].destination, RingCCWSuffix)
             /\ ~ends_with(Output[i].destination, RingCWSuffix)
        /\ SingleDeparture =>
             LET t == Entries[1].direction.v
                 d == Output[1].destination
             IN  \A letter \in {"S", "U"} :
                    StartsWithMarker(t, letter) =>
                        /\ starts_with(SubSeq(t, 3, Len(t)), d)
                        /\ \A m \in {"S", "U"} :
                              StartsWithMarker(d, m)
                                  => StartsWithMarker(SubSeq(t, 3, Len(t)), m)

\* The direction text "S Spandau Bhf (Berlin)" came out as "Spandau".
C6_Witness ==
    /\ SingleDeparture
    /\ Entries[1].direction.v = SpandauBhfBerlin
    /\ Output[1].destination = Spandau

SuffixRules == {BerlinSuffix, BhfSuffix, RingCCWSuffix, RingCWSuffix}

\* The text without a leading "S " or "U ".
AfterMarker(t) ==
    IF StartsWithMarker(t, "S") \/ StartsWithMarker(t, "U")
    THEN SubSeq(t, 3, Len(t))
    ELSE t

\* The positions of t at which one of the suffixes ends.
SuffixEnds(t) ==
    {k \in 1..Len(t) : \E p \in SuffixRules : ends_with(SubSeq(t, 1, k), p)}

\* t up to, and not including, the first suffix that ends in it.
CutAtFirstSuffix(t) ==
    IF SuffixEnds(t) = {} THEN t
    ELSE LET k == CHOOSE k \in SuffixEnds(t) : \A m \in SuffixEnds(t) : k <= m
             p == CHOOSE p \in SuffixRules : ends_with(SubSeq(t, 1, k), p)
         IN  SubSeq(t, 1, k - Len(p))

\* C7: cleanup returns the text without its leading marker, cut at the
\* first suffix that ends in it, for every text.
C7_CleanupIsMarkerThenFirstSuffix ==
    cleaned # <<>> =>
        /\ cleaned[1] = Returned(CutAtFirstSuffix(AfterMarker(dest)))
        /\ dest = SpandauBhfBerlin => cleaned[1] = Returned(Spandau)
        /\ dest = SpringpfuhlBerlin => cleaned[1] = Returned(Springpfuhl)
        /\ dest = UBerlinerStr => cleaned[1] = Returned(BerlinerStr)
        /\ dest \in {Spandau, Uhlandstr} => cleaned[1] = Returned(dest)

C9_ModeFilter ==
    (FetchEnded /\ fetched[1].tag = "Ok") =>
        /\ \A i \in 1..Len(Output) : ~DroppedLine(Output[i].line)
        /\ \A j \in 1..Len(Entries) :
             (Complete(Entries[j]) /\ InHorizon(Entries[j].when.v, now_utc)) =>
                (DroppedLine(Entries[j].line.name)
                   <=> ~\E m \in 1..15 : Returns(Entries[j].line.name, m))

\* M43 in the window came out.
C9_Witness ==
    /\ FetchEnded /\ fetched[1].tag = "Ok" /\ Len(Entries) = 1 /\ Len(Output) = 1
    /\ Output[1].line = <<"M", "4", "3">>

\* The departures of the list v that have this many minutes, in v's order.
WithMinutes(v, m) == LET Is(d) == d.minutes = m IN SelectSeq(v, Is)

\* C10: the returned list is ascending in minutes, has every departure the
\* loop collected and no other (however many), and departures of equal
\* minutes are in the order the loop collected them in; the loop collected
\* one per usable entry.
C10_StableSortOfSurvivors ==
    (FetchEnded /\ fetched[1].tag = "Ok") =>
        /\ \A i \in 1..(Len(Output) - 1) : Output[i].minutes <= Output[i + 1].minutes
        /\ Len(Output) = Len(fetched[1].collected)
        /\ \A m \in 1..15 : WithMinutes(Output, m) = WithMinutes(fetched[1].collected, m)
        /\ Len(Output) = Cardinality({j \in 1..Len(Entries) : Usable(Entries[j], now_utc)})

\* Four survivors, the latest first in the response and two of equal
\* minutes: they came out ascending, the two in the response's order.
C10_Witness ==
    /\ FetchEnded /\ fetched[1].tag = "Ok"
    /\ Len(Output) = 4
    /\ fetched[1].collected[1].minutes = 10
    /\ fetched[1].collected[2].line = <<"S", "3">>
    /\ fetched[1].collected[3].line = <<"U", "1">>
    /\ fetched[1].collected[2].minutes = fetched[1].collected[3].minutes
    /\ Output[1].minutes = 2
    /\ Output[2].line = <<"S", "3">> /\ Output[3].line = <<"U", "1">>
    /\ Output[4].minutes = 10

----------------------------------------------------------------------------
(* Claims about the text layout: format_truncated under SpecFormat and     *)
(* smart_wrap under SpecWrap.  Lengths here count characters, as the       *)
(* claims do.                                                              *)

RECURSIVE Numeral(_)
\* The decimal numeral of n.
Numeral(n) ==
    LET last == <<"0", "1", "2", "3", "4", "5", "6", "7", "8", "9">>[(n % 10) + 1]
    IN  IF n < 10 THEN <<last>> ELSE Numeral(n \div 10) \o <<last>>

LineAndSpace(d) == d.line \o <<" ">>
SpaceMinutesMin(d) == <<" ">> \o Numeral(d.minutes) \o <<" ", "m", "i", "n">>
Untruncated(d) == LineAndSpace(d) \o d.destination \o SpaceMinutesMin(d)

\* C13: the string format_truncated returns has at most max_chars
\* characters; it is "{line} {destination} {minutes} min" itself when that
\* has at most max_chars characters; and when the line, its space and
\* " {minutes} min" together have fewer than max_chars characters, it
\* starts with "{line} ", ends with " {minutes} min" and has between them
\* the destination, whole or cut to exactly max_chars minus that overhead
\* characters.
C13_OnlyDestinationShortened ==
    truncated # <<>> =>
        LET d == format_call.self
            max_chars == format_call.max_chars
            out == truncated[1]
            overhead == Len(LineAndSpace(d)) + Len(SpaceMinutesMin(d))
        IN  /\ Len(out) <= max_chars
            /\ Len(Untruncated(d)) <= max_chars => out = Untruncated(d)
            /\ overhead < max_chars =>
                   /\ Len(out) >= overhead
                   /\ starts_with(out, LineAndSpace(d))
                   /\ ends_with(out, SpaceMinutesMin(d))
                   /\ LET kept == SubSeq(out, Len(LineAndSpace(d)) + 1,
                                         Len(out) - Len(SpaceMinutesMin(d)))
                      IN  /\ starts_with(d.destination, kept)
                          /\ kept # d.destination => Len(kept) = max_chars - overhead

\* A word as it may stand on a line of the given width.
CutWord(word, max_width) ==
    SubSeq(word, 1, IF Len(word) < max_width THEN Len(word) ELSE max_width)

RECURSIVE GreedyLines(_, _, _)
\* The greedy packing of the words into lines of at most max_width
\* characters, `line` being the line under construction.
GreedyLines(words, line, max_width) ==
    IF words = <<>> THEN (IF line = <<>> THEN <<>> ELSE <<line>>)
    ELSE LET word == CutWord(Head(words), max_width) IN
         IF line = <<>> THEN GreedyLines(Tail(words), word, max_width)
         ELSE IF Len(line) + 1 + Len(word) <= max_width
         THEN GreedyLines(Tail(words), line \o <<" ">> \o word, max_width)
         ELSE <<line>> \o GreedyLines(Tail(words), word, max_width)

\* The first max_lines greedy lines, then empty strings up to max_lines.
WrapExpected(text, max_width, max_lines) ==
    LET packed == GreedyLines(split_whitespace(text), <<>>, max_width) IN
    [i \in 1..max_lines |-> IF i <= Len(packed) THEN packed[i] ELSE <<>>]

\* C14: smart_wrap returns exactly max_lines strings, none longer than
\* max_width characters: the greedy packing of the text's words (a word
\* longer than max_width cut to max_width characters), then empty strings.
C14_ExactlyMaxLinesGreedyLines ==
    wrapped # <<>> =>
        LET out == wrapped[1] IN
        /\ Len(out) = wrap_call.max_lines
        /\ \A i \in 1..Len(out) : Len(out[i]) <= wrap_call.max_width
        /\ out = WrapExpected(wrap_call.text, wrap_call.max_width, wrap_call.max_lines)

====
